---- MODULE Spec2Model ----
(***************************************************************************)
(* The crash-game round engine (services/GameManager.js), the wallet       *)
(* deposit route (routes/walletRoutes.js) and the documents they share     *)
(* (models/GameRound.js, models/Player.js), as a state machine.            *)
(*                                                                         *)
(* Node runs one callback at a time, so every action below is one          *)
(* synchronous segment of a handler: from its entry, or from the           *)
(* resumption of an `await`, to the next `await` whose promise is settled  *)
(* by I/O. An `await` of a promise that is already settled (safeSave's     *)
(* early return) resumes in the same macrotask and does not end a segment. *)
(* A database read or write takes effect at the moment its promise         *)
(* resolves, in the step that resumes the handler awaiting it.             *)
(*                                                                         *)
(* Numbers are fixed point: multipliers, crypto amounts and USD amounts    *)
(* are integers counting 1/Scale of a unit.                                *)
(***************************************************************************)
EXTENDS Integers, Sequences, FiniteSets, Bags, TLC

(* ---------------------------- bounds ----------------------------------- *)
MaxRounds == 2
MaxCalls == 3
MaxRestartCalls == 2
MaxFaultCalls == 3
MaxStoreCalls == 2
MaxStarts == 2
MaxRepeats == 2
MaxLiveCalls == 1
MaxTasks == 2
MaxElapsed == 16

(* ------------------------ program constants ---------------------------- *)
Scale == 1000
minCrash == 1010
maxCrash == 120000
GrowthPerUnit == 2
UsdtStartingBalance == 1000
bettingEndsIn == 3000
Infinity == 1000000000

Players == {"p1"}
Currencies == {"USDT", "BTC"}
OracleSeeds == {1, 2}
ExpectedOffsets == {0, 5, 5000}
Seeds == {1}
TickDelays == {8}
ClockSteps == {-4, 4}
BetUsdAmounts == {400}
BetCurrencies == {"USDT"}
SupportedCurrencies == {"BTC", "ETH", "USDT"}
BetInputAmounts == {-400, 0, 400}
BetInputCurrencies == {"USDT", "usdt", "DOGE", ""}
DepositAmounts == {500}
Calls == 1..MaxCalls
Tasks == 1..MaxTasks

Min(a, b) == IF a < b THEN a ELSE b
Max(a, b) == IF a > b THEN a ELSE b

(* ------------------------------ state ---------------------------------- *)
VARIABLES
  currentRound,      \* this.currentRound: 0 is null, r > 0 is rounds[r]
  rounds,            \* every GameRound object made so far, in creation order
  isGameActive,      \* this.isGameActive
  currentMultiplier, \* this.currentMultiplier
  timeElapsed,       \* Date.now() - this.gameStartTime, as of the latest tick
  intervalLive,      \* the interval this.multiplierInterval refers to is running
  leaked,            \* running intervals no handle refers to any more
  gamePhaseTimers,   \* pending setTimeout(() => this.startGamePhase(), 3000)
  newRoundTimers,    \* pending setTimeout(() => this.startNewRound(), 3000)
  saving,            \* this.isSaving and the document.save() it guards
  tasks,             \* suspended startNewRound / startGamePhase / crashGame calls
  persisted,         \* the GameRound collection
  wallet,            \* Player.wallet, per player and currency, as stored
  stats,             \* Player.totalGamesPlayed / totalWon / totalLost, as stored
  transactions,      \* the Transaction collection
  events,            \* everything io.emit has sent (a bag)
  calls,             \* placeBet / cashOut / deposit invocations
  startCalls,        \* how many times start() was called
  stopCalls,         \* whether stop() was called since the latest start()
  requestsLeft,      \* how many requests the clients are still going to send
  oracle             \* one round taken through creation and POST /verify on its own

vars == <<currentRound, rounds, isGameActive, currentMultiplier, timeElapsed,
          intervalLive, leaked, gamePhaseTimers, newRoundTimers, saving, tasks,
          persisted, wallet, stats, transactions, events, calls, startCalls,
          stopCalls, requestsLeft, oracle>>

(* The state as one record, so that a handler's segments compose. *)
State ==
  [currentRound |-> currentRound, rounds |-> rounds, isGameActive |-> isGameActive,
   currentMultiplier |-> currentMultiplier, timeElapsed |-> timeElapsed,
   intervalLive |-> intervalLive, leaked |-> leaked,
   gamePhaseTimers |-> gamePhaseTimers, newRoundTimers |-> newRoundTimers,
   saving |-> saving, tasks |-> tasks, persisted |-> persisted, wallet |-> wallet,
   stats |-> stats, transactions |-> transactions, events |-> events,
   calls |-> calls, startCalls |-> startCalls, stopCalls |-> stopCalls,
   requestsLeft |-> requestsLeft, oracle |-> oracle]

Commit(s) ==
  /\ currentRound' = s.currentRound
  /\ rounds' = s.rounds
  /\ isGameActive' = s.isGameActive
  /\ currentMultiplier' = s.currentMultiplier
  /\ timeElapsed' = s.timeElapsed
  /\ intervalLive' = s.intervalLive
  /\ leaked' = s.leaked
  /\ gamePhaseTimers' = s.gamePhaseTimers
  /\ newRoundTimers' = s.newRoundTimers
  /\ saving' = s.saving
  /\ tasks' = s.tasks
  /\ persisted' = s.persisted
  /\ wallet' = s.wallet
  /\ stats' = s.stats
  /\ transactions' = s.transactions
  /\ events' = s.events
  /\ calls' = s.calls
  /\ startCalls' = s.startCalls
  /\ stopCalls' = s.stopCalls
  /\ requestsLeft' = s.requestsLeft
  /\ oracle' = s.oracle

(* ---------------------------- documents -------------------------------- *)
NoPayout == [cryptoAmount |-> 0, usdAmount |-> 0]

NoRound ==
  [status |-> "none", crashPoint |-> 0, seed |-> 0, seedHash |-> 0, bets |-> <<>>,
   maxMultiplier |-> 0, endTime |-> FALSE]

ZeroStats == [totalGamesPlayed |-> 0, totalWon |-> 0, totalLost |-> 0]

NoTask == [kind |-> "none", pc |-> "none", round |-> 0, idx |-> 0, seed |-> 0,
           st |-> ZeroStats]

NoSave == [round |-> 0, snap |-> NoRound, owner |-> <<"none", 0>>]

\* No round is being followed through POST /verify.
NoOracle ==
  [pc |-> "none", configured |-> FALSE, h |-> <<0, 0>>, hv |-> <<0, 0>>,
   roundId |-> 0, doc |-> NoRound, seed |-> 0, expectedCrashPoint |-> 0,
   response |-> [status |-> 0]]

NoCall ==
  [kind |-> "none", pc |-> "idle", playerId |-> "", usdAmount |-> 0,
   cryptocurrency |-> "", price |-> 0, cryptoAmount |-> 0, balance |-> 0,
   bet |-> <<0, 0>>, multiplier |-> 0, txRound |-> 0, st |-> ZeroStats,
   result |-> "pending"]

Event(type, roundId, playerId, cryptocurrency, a, b) ==
  [type |-> type, roundId |-> roundId, playerId |-> playerId,
   cryptocurrency |-> cryptocurrency, a |-> a, b |-> b]

emit(s, ev) == [s EXCEPT !.events = @ (+) SetToBag({ev})]

\* Number.prototype.toFixed(2) followed by parseFloat: round to hundredths.
toFixed2(x) == ((x + (Scale \div 200)) \div (Scale \div 100)) * (Scale \div 100)

(* ------------------------- fairness oracle ----------------------------- *)
\* parseInt(hash.substring(0, 8), 16) is a 32-bit number; it is kept as its two
\* 16-bit halves <<high, low>>, so 0xFFFFFFFF is <<65535, 65535>>.
HashPrefixes == <<(<<49, 8758>>), (<<39, 20316>>)>>

\* The first four bytes of HMAC-SHA256(key, seed + roundId), as a number.
hashNum(seed, roundId) == HashPrefixes[((seed + roundId) % 2) + 1]

\* Math.log(1 - hashNum / 0xFFFFFFFF) / -0.1, in 1/Scale units: 0 gives 0,
\* 2576220 = <<39, 20316>> gives 0.0060, 3220022 = <<49, 8758>> gives 0.0075,
\* 0xF0000000 = <<61440, 0>> gives 27.726, 4294966760 = <<65535, 65000>> gives
\* 158.984, 0xFFFFFFFF gives Infinity.
lnTerm(h) ==
  CASE h = <<0, 0>> -> 0
    [] h = <<39, 20316>> -> 6
    [] h = <<49, 8758>> -> 7
    [] h = <<61440, 0>> -> 27726
    [] h = <<65535, 65000>> -> 158984
    [] h = <<65535, 65535>> -> Infinity

crashPointUnclamped(h) == minCrash + lnTerm(h)

\* calculateCrashPoint lines 296-300, from the digest prefix on.
crashPointOf(h) ==
  LET crash == minCrash + lnTerm(h)
  IN  Min(Max(crash, minCrash), maxCrash)

\* Digest prefixes an HMAC can give: both ends of the range and values between.
Digests ==
  {<<0, 0>>, <<39, 20316>>, <<49, 8758>>, <<61440, 0>>, <<65535, 65000>>,
   <<65535, 65535>>}

calculateCrashPoint(seed, roundId) == crashPointOf(hashNum(seed, roundId))

\* sha256(seed): one-way and collision free on the seeds drawn.
hashSeed(seed) == 100 + seed

(* --------------------------- GameManager ------------------------------- *)
isSaving(s) == s.saving.round # 0

FreeTasks(s) == {t \in Tasks : s.tasks[t].kind = "none"}

endTask(s, t) == [s EXCEPT !.tasks[t] = NoTask]

\* The first save of a new round (startNewRound line 53) is still in flight.
FirstSaveInFlight(s, r) ==
  \E t \in Tasks : s.tasks[t].pc = "snr_save" /\ s.tasks[t].round = r

\* safeSave returns without having written: isSaving was set, or the document
\* refuses a second save() while its first is in flight (caught and logged).
safeSaveSkips(s) == isSaving(s) \/ FirstSaveInFlight(s, s.currentRound)

\* safeSave up to `await document.save()`.
safeSave(s, owner) ==
  [s EXCEPT !.saving = [round |-> s.currentRound, snap |-> s.rounds[s.currentRound],
                        owner |-> owner]]

\* `document.save()` of safeSave has written; the finally block clears the flag.
safeSaveDone(s) ==
  [s EXCEPT !.persisted[s.saving.round] = s.saving.snap, !.saving = NoSave]

\* startNewRound lines 38-53: the new round, then `await this.currentRound.save()`.
createRound(s, t) ==
  LET roundId == Len(s.rounds) + 1
      seed == s.tasks[t].seed
      round == [status |-> "waiting", crashPoint |-> calculateCrashPoint(seed, roundId),
                seed |-> seed, seedHash |-> hashSeed(seed), bets |-> <<>>,
                maxMultiplier |-> Scale, endTime |-> FALSE]
  IN  [s EXCEPT !.rounds = Append(@, round),
                !.currentRound = roundId,
                !.tasks[t] = [NoTask EXCEPT !.kind = "startNewRound", !.pc = "snr_save",
                                            !.round = roundId, !.seed = seed]]

\* crashGame ending without `setTimeout(() => this.startNewRound(), 5000)`: with it
\* in place of crashGameTail no round follows a crashed one.
crashGameTailUnscheduled(s, t) ==
  LET r == s.currentRound
      e == emit(s, Event("round:crashed", r, "", "", s.rounds[r].crashPoint,
                         s.currentMultiplier))
  IN  endTask(e, t)

\* crashGame lines 117-128, after `await this.endRound()`.
crashGameTail(s, t) ==
  LET r == s.currentRound
      e == emit(s, Event("round:crashed", r, "", "", s.rounds[r].crashPoint,
                         s.currentMultiplier))
  IN  endTask([e EXCEPT !.newRoundTimers = @ + 1], t)

afterEndRound(s, t) ==
  IF s.tasks[t].kind = "crashGame" THEN crashGameTail(s, t) ELSE createRound(s, t)

\* The first bet at or after position i that the loop of endRound settles.
NextLoss(bets, i) ==
  LET open == {j \in i..Len(bets) : ~bets[j].cashedOut}
  IN  IF open = {} THEN 0 ELSE CHOOSE j \in open : \A k \in open : j <= k

\* endRound line 143, `await this.safeSave(this.currentRound)`.
endRoundSave(s, t) ==
  IF safeSaveSkips(s) THEN afterEndRound(s, t)
  ELSE [safeSave(s, <<"task", t>>) EXCEPT !.tasks[t].pc = "er_save"]

\* endRound lines 137-141, the loop from position i of the round's bets.
endRoundLoop(s, t, i) ==
  LET j == NextLoss(s.rounds[s.tasks[t].round].bets, i)
  IN  IF j # 0 THEN [s EXCEPT !.tasks[t].pc = "er_statsFind", !.tasks[t].idx = j]
      ELSE endRoundSave(s, t)

\* endRound, called by task t, up to its first await.
endRound(s, t) ==
  LET r == s.currentRound
  IN  IF r = 0 \/ s.rounds[r].status = "crashed" THEN afterEndRound(s, t)
      ELSE endRoundLoop([s EXCEPT !.rounds[r].endTime = TRUE,
                                  !.rounds[r].status = "crashed",
                                  !.tasks[t].round = r], t, 1)

\* startNewRound, up to its first await; t is the slot of the new call.
startNewRound(s, t, seed) ==
  LET s1 == [s EXCEPT !.tasks[t] = [NoTask EXCEPT !.kind = "startNewRound",
                                                  !.seed = seed]]
  IN  IF s.currentRound # 0 /\ s.isGameActive THEN endRound(s1, t)
      ELSE createRound(s1, t)

\* startNewRound lines 55-65, after the first save of the round.
startNewRoundTail(s, t) ==
  LET r == s.tasks[t].round
      doc == [s.rounds[r] EXCEPT !.status = "waiting", !.bets = <<>>,
                                 !.maxMultiplier = Scale, !.endTime = FALSE]
      s1 == [s EXCEPT !.persisted[r] = doc, !.gamePhaseTimers = @ + 1]
  IN  endTask(emit(s1, Event("round:new", r, "", "", s.rounds[r].seedHash,
                             bettingEndsIn)), t)

\* startGamePhase lines 82-86, after `await this.safeSave(...)`.
startGamePhaseTail(s, t) ==
  LET s1 == [s EXCEPT !.leaked = IF s.intervalLive THEN @ + 1 ELSE @,
                      !.intervalLive = TRUE]
  IN  endTask(emit(s1, Event("round:started", s.currentRound, "", "", 0, 0)), t)

\* startGamePhase calling setInterval before its save: with it in place of
\* startGamePhase a tick can broadcast a multiplier before round:started is sent.
startGamePhaseTickingEarly(s, t) ==
  LET r == s.currentRound
      s1 == [s EXCEPT !.isGameActive = TRUE, !.currentMultiplier = Scale,
                      !.timeElapsed = 0, !.rounds[r].status = "active",
                      !.intervalLive = TRUE,
                      !.tasks[t] = [NoTask EXCEPT !.kind = "startGamePhase"]]
  IN  IF r = 0 THEN s
      ELSE IF safeSaveSkips(s1) THEN startGamePhaseTail(s1, t)
      ELSE [safeSave(s1, <<"task", t>>) EXCEPT !.tasks[t].pc = "sgp_save"]

\* startGamePhase, up to its first await.
startGamePhase(s, t) ==
  LET r == s.currentRound
      s1 == [s EXCEPT !.isGameActive = TRUE, !.currentMultiplier = Scale,
                      !.timeElapsed = 0, !.rounds[r].status = "active",
                      !.tasks[t] = [NoTask EXCEPT !.kind = "startGamePhase"]]
  IN  IF r = 0 THEN s
      ELSE IF safeSaveSkips(s1) THEN startGamePhaseTail(s1, t)
      ELSE [safeSave(s1, <<"task", t>>) EXCEPT !.tasks[t].pc = "sgp_save"]

\* crashGame without line 112 (`this.isGameActive = false`): with it in place of
\* crashGame a cashOut gets past the check of a crashed round.
crashGameKeepingFlag(s, t) ==
  IF ~s.isGameActive \/ s.currentRound = 0 THEN s
  ELSE endRound([s EXCEPT !.intervalLive = FALSE,
                          !.tasks[t] = [NoTask EXCEPT !.kind = "crashGame"]], t)

\* crashGame setting the timer of line 126 before `await this.endRound()`: with it
\* in place of crashGame the next round can come while bets are being settled.
crashGameSchedulingFirst(s, t) ==
  IF ~s.isGameActive \/ s.currentRound = 0 THEN s
  ELSE endRound([s EXCEPT !.isGameActive = FALSE, !.intervalLive = FALSE,
                          !.newRoundTimers = @ + 1,
                          !.tasks[t] = [NoTask EXCEPT !.kind = "crashGame"]], t)

\* crashGame, up to its first await.
crashGame(s, t) ==
  IF ~s.isGameActive \/ s.currentRound = 0 THEN s
  ELSE endRound([s EXCEPT !.isGameActive = FALSE, !.intervalLive = FALSE,
                          !.tasks[t] = [NoTask EXCEPT !.kind = "crashGame"]], t)

\* updateMultiplier with the crash tested on the multiplier of the previous tick:
\* with it in place of updateMultiplier a multiplier at or above crashPoint is
\* published and can be cashed out.
updateMultiplierTestingLate(s, t, d) ==
  LET r == s.currentRound
      elapsed == s.timeElapsed + d
      m == Scale + elapsed * GrowthPerUnit
      mm == IF s.rounds[r].maxMultiplier = 0 THEN Scale ELSE s.rounds[r].maxMultiplier
      s1 == [s EXCEPT !.timeElapsed = elapsed, !.currentMultiplier = m,
                      !.rounds[r].maxMultiplier = Max(mm, m)]
  IN  IF ~s.isGameActive \/ r = 0 THEN s
      ELSE IF s.currentMultiplier >= s.rounds[r].crashPoint THEN crashGame(s1, t)
      ELSE emit(s1, Event("multiplier:update", r, "", "", toFixed2(m), 0))

\* updateMultiplier keeping the latest multiplier as the round's maximum: with it
\* in place of updateMultiplier the maximum falls when the clock steps back.
updateMultiplierTrackingLive(s, t, d) ==
  LET r == s.currentRound
      elapsed == s.timeElapsed + d
      m == Scale + elapsed * GrowthPerUnit
      s1 == [s EXCEPT !.timeElapsed = elapsed, !.currentMultiplier = m,
                      !.rounds[r].maxMultiplier = m]
  IN  IF ~s.isGameActive \/ r = 0 THEN s
      ELSE IF m >= s.rounds[r].crashPoint THEN crashGame(s1, t)
      ELSE emit(s1, Event("multiplier:update", r, "", "", toFixed2(m), 0))

\* updateMultiplier; d is the time that passed since the latest tick.
updateMultiplier(s, t, d) ==
  LET r == s.currentRound
      elapsed == s.timeElapsed + d
      m == Scale + elapsed * GrowthPerUnit
      mm == IF s.rounds[r].maxMultiplier = 0 THEN Scale ELSE s.rounds[r].maxMultiplier
      s1 == [s EXCEPT !.timeElapsed = elapsed, !.currentMultiplier = m,
                      !.rounds[r].maxMultiplier = Max(mm, m)]
  IN  IF ~s.isGameActive \/ r = 0 THEN s
      ELSE IF m >= s.rounds[r].crashPoint THEN crashGame(s1, t)
      ELSE emit(s1, Event("multiplier:update", r, "", "", toFixed2(m), 0))

stop(s) == [s EXCEPT !.intervalLive = FALSE, !.stopCalls = 1]

(* ------------------------ player operations ---------------------------- *)
\* The call returns or throws; of its locals only what it answered is kept.
finish(s, c, result) ==
  [s EXCEPT !.calls[c] = [NoCall EXCEPT !.kind = s.calls[c].kind, !.pc = "done",
                                        !.playerId = s.calls[c].playerId,
                                        !.bet = s.calls[c].bet, !.result = result]]

\* The price CryptoService.getPrice can return for a currency (USDT is pinned).
PricesOf(cryptocurrency) == IF cryptocurrency = "USDT" THEN {1} ELSE {2}

\* placeBet refusing a crashed round only: with it in place of placeBetBegin a bet
\* is taken while the round is active.
placeBetBeginOpenWhileActive(s, c, playerId, usdAmount, cryptocurrency) ==
  LET s1 == [s EXCEPT !.calls[c] = [NoCall EXCEPT !.kind = "placeBet",
                                                  !.pc = "findPlayer",
                                                  !.playerId = playerId,
                                                  !.usdAmount = usdAmount * Scale,
                                                  !.cryptocurrency = cryptocurrency]]
  IN  IF s.currentRound = 0 \/ s.rounds[s.currentRound].status = "crashed"
      THEN finish(s1, c, "BettingClosed")
      ELSE s1

\* placeBet lines 153-157: the phase check, then `await getPrice`.
placeBetBegin(s, c, playerId, usdAmount, cryptocurrency) ==
  LET s1 == [s EXCEPT !.calls[c] = [NoCall EXCEPT !.kind = "placeBet",
                                                  !.pc = "findPlayer",
                                                  !.playerId = playerId,
                                                  !.usdAmount = usdAmount * Scale,
                                                  !.cryptocurrency = cryptocurrency]]
  IN  IF s.currentRound = 0 \/ s.rounds[s.currentRound].status # "waiting"
      THEN finish(s1, c, "BettingClosed")
      ELSE s1

\* String.prototype.toUpperCase on the currency codes that are sent.
toUpperCase(str) ==
  CASE str = "usdt" -> "USDT"
    [] str = "btc" -> "BTC"
    [] str = "eth" -> "ETH"
    [] OTHER -> str

\* handleBet passing whatever it is sent to placeBet: with it in place of handleBet
\* a bet of a negative amount is taken and its debit raises the balance.
handleBetUnchecked(s, c, playerId, usdAmount, cryptocurrency) ==
  placeBetBegin(s, c, playerId, usdAmount, toUpperCase(cryptocurrency))

\* WebSocketHandler.handleBet lines 131-147, for an authenticated socket: the
\* amount and the currency are validated, then placeBet is called. An amount of 0
\* also stands for one that is missing, "" for a missing currency.
handleBet(s, c, playerId, usdAmount, cryptocurrency) ==
  LET s1 == [s EXCEPT !.calls[c] = [NoCall EXCEPT !.kind = "placeBet",
                                                  !.playerId = playerId]]
  IN  IF usdAmount = 0 \/ usdAmount <= 0 THEN finish(s1, c, "InvalidBetAmount")
      ELSE IF cryptocurrency = "" \/ toUpperCase(cryptocurrency) \notin SupportedCurrencies
      THEN finish(s1, c, "InvalidCryptocurrency")
      ELSE placeBetBegin(s, c, playerId, usdAmount, toUpperCase(cryptocurrency))

\* placeBet debiting the stored balance before line 161 compares: with it in place
\* of placeBetFind a refused bet has already taken from the wallet.
placeBetFindDebitingFirst(s, c, price) ==
  LET call == s.calls[c]
      cryptoAmount == call.usdAmount \div price
      loaded == s.wallet[call.playerId][call.cryptocurrency]
      s1 == [s EXCEPT !.wallet[call.playerId][call.cryptocurrency] =
                          Max(loaded - cryptoAmount, 0)]
  IN  IF loaded < cryptoAmount THEN finish(s1, c, "InsufficientBalance")
      ELSE [s EXCEPT !.calls[c].price = price,
                     !.calls[c].cryptoAmount = cryptoAmount,
                     !.calls[c].balance = loaded - cryptoAmount,
                     !.calls[c].pc = "savePlayer"]

\* placeBet lines 158-173: Player.findOne answers; check, debit the loaded copy,
\* then `await player.save()`.
placeBetFind(s, c, price) ==
  LET call == s.calls[c]
      cryptoAmount == call.usdAmount \div price
      loaded == s.wallet[call.playerId][call.cryptocurrency]
  IN  IF loaded < cryptoAmount THEN finish(s, c, "InsufficientBalance")
      ELSE [s EXCEPT !.calls[c].price = price,
                     !.calls[c].cryptoAmount = cryptoAmount,
                     !.calls[c].balance = loaded - cryptoAmount,
                     !.calls[c].pc = "savePlayer"]

\* player.save() writes the modified path wallet.<currency> of the loaded copy.
playerSave(s, c) ==
  [s EXCEPT !.wallet[s.calls[c].playerId][s.calls[c].cryptocurrency] = s.calls[c].balance]

\* logTransaction is called: its roundId argument is read now.
logTransactionCall(s, c) ==
  [s EXCEPT !.calls[c].txRound = s.currentRound, !.calls[c].pc = "logTx"]

\* `await this.safeSave(this.currentRound)` of placeBet and cashOut.
callSafeSave(s, c) ==
  IF safeSaveSkips(s) THEN logTransactionCall(s, c)
  ELSE [safeSave(s, <<"call", c>>) EXCEPT !.calls[c].pc = "safeSave"]

\* placeBet lines 175-176: the bet goes to whatever this.currentRound is now.
placeBetPush(s, c) ==
  LET call == s.calls[c]
      bet == [playerId |-> call.playerId, usdAmount |-> call.usdAmount,
              cryptoAmount |-> call.cryptoAmount,
              cryptocurrency |-> call.cryptocurrency, priceAtTime |-> call.price,
              cashedOut |-> FALSE, cashoutMultiplier |-> 0, payout |-> NoPayout,
              transactionHash |-> c]
      r == s.currentRound
  IN  callSafeSave([s EXCEPT !.rounds[r].bets = Append(@, bet),
                             !.calls[c].bet = <<r, Len(s.rounds[r].bets) + 1>>], c)

Transaction(call, c, type) ==
  [transactionId |-> c, playerId |-> call.playerId, roundId |-> call.txRound,
   type |-> type, usdAmount |-> call.usdAmount, cryptoAmount |-> call.cryptoAmount,
   cryptocurrency |-> call.cryptocurrency, priceAtTime |-> call.price,
   multiplier |-> call.multiplier, balanceAfter |-> call.balance]

\* placeBet lines 178-191: the transaction is stored, bet:placed goes out.
placeBetLogged(s, c) ==
  LET call == s.calls[c]
      s1 == [s EXCEPT !.transactions = @ \cup {Transaction(call, c, "bet")}]
  IN  finish(emit(s1, Event("bet:placed", s.currentRound, call.playerId,
                            call.cryptocurrency, call.usdAmount, 0)), c, "ok")

\* bets.find without `&& !b.cashedOut`: with it in place of findBet a second
\* cashOut finds the bet the first one marked.
findBetIgnoringCashedOut(bets, playerId) ==
  LET held == {j \in 1..Len(bets) : bets[j].playerId = playerId}
  IN  IF held = {} THEN 0 ELSE CHOOSE j \in held : \A k \in held : j <= k

\* bets.find(b => b.playerId === playerId && !b.cashedOut): its position, or 0.
findBet(bets, playerId) ==
  LET open == {j \in 1..Len(bets) : bets[j].playerId = playerId /\ ~bets[j].cashedOut}
  IN  IF open = {} THEN 0 ELSE CHOOSE j \in open : \A k \in open : j <= k

\* cashOut paying at the multiplier 1 of the opening whatever the ticks did: with
\* it in place of cashOutBegin a cashout after a tick is paid too little.
cashOutBeginAtOpening(s, c, playerId) ==
  LET r == s.currentRound
      i == findBet(s.rounds[r].bets, playerId)
      bet == s.rounds[r].bets[i]
      multiplier == Scale
      cryptoPayout == (bet.cryptoAmount * multiplier) \div Scale
      usdPayout == cryptoPayout * bet.priceAtTime
      s1 == [s EXCEPT !.calls[c] = [NoCall EXCEPT !.kind = "cashOut",
                                                  !.playerId = playerId]]
  IN  IF ~s.isGameActive \/ r = 0 THEN finish(s1, c, "RoundNotActive")
      ELSE IF i = 0 THEN finish(s1, c, "NoActiveBet")
      ELSE [s1 EXCEPT !.rounds[r].bets[i].cashedOut = TRUE,
                      !.rounds[r].bets[i].cashoutMultiplier = multiplier,
                      !.rounds[r].bets[i].payout =
                          [cryptoAmount |-> cryptoPayout, usdAmount |-> usdPayout],
                      !.calls[c].pc = "findPlayer",
                      !.calls[c].bet = <<r, i>>,
                      !.calls[c].multiplier = multiplier,
                      !.calls[c].cryptocurrency = bet.cryptocurrency,
                      !.calls[c].price = bet.priceAtTime,
                      !.calls[c].cryptoAmount = cryptoPayout,
                      !.calls[c].usdAmount = usdPayout]

\* cashOut setting cashedOut and leaving multiplier and payout for later: with it
\* in place of cashOutBegin a bet is cashed out with no payout on it.
cashOutBeginMarkingOnly(s, c, playerId) ==
  LET r == s.currentRound
      i == findBet(s.rounds[r].bets, playerId)
      bet == s.rounds[r].bets[i]
      multiplier == s.currentMultiplier
      cryptoPayout == (bet.cryptoAmount * multiplier) \div Scale
      usdPayout == cryptoPayout * bet.priceAtTime
      s1 == [s EXCEPT !.calls[c] = [NoCall EXCEPT !.kind = "cashOut",
                                                  !.playerId = playerId]]
  IN  IF ~s.isGameActive \/ r = 0 THEN finish(s1, c, "RoundNotActive")
      ELSE IF i = 0 THEN finish(s1, c, "NoActiveBet")
      ELSE [s1 EXCEPT !.rounds[r].bets[i].cashedOut = TRUE,
                      !.calls[c].pc = "findPlayer",
                      !.calls[c].bet = <<r, i>>,
                      !.calls[c].multiplier = multiplier,
                      !.calls[c].cryptocurrency = bet.cryptocurrency,
                      !.calls[c].price = bet.priceAtTime,
                      !.calls[c].cryptoAmount = cryptoPayout,
                      !.calls[c].usdAmount = usdPayout]

\* cashOut lines 201-214: check, mark the bet, then `await Player.findOne`.
cashOutBegin(s, c, playerId) ==
  LET r == s.currentRound
      i == findBet(s.rounds[r].bets, playerId)
      bet == s.rounds[r].bets[i]
      multiplier == s.currentMultiplier
      cryptoPayout == (bet.cryptoAmount * multiplier) \div Scale
      usdPayout == cryptoPayout * bet.priceAtTime
      s1 == [s EXCEPT !.calls[c] = [NoCall EXCEPT !.kind = "cashOut",
                                                  !.playerId = playerId]]
  IN  IF ~s.isGameActive \/ r = 0 THEN finish(s1, c, "RoundNotActive")
      ELSE IF i = 0 THEN finish(s1, c, "NoActiveBet")
      ELSE [s1 EXCEPT !.rounds[r].bets[i].cashedOut = TRUE,
                      !.rounds[r].bets[i].cashoutMultiplier = multiplier,
                      !.rounds[r].bets[i].payout =
                          [cryptoAmount |-> cryptoPayout, usdAmount |-> usdPayout],
                      !.calls[c].pc = "findPlayer",
                      !.calls[c].bet = <<r, i>>,
                      !.calls[c].multiplier = multiplier,
                      !.calls[c].cryptocurrency = bet.cryptocurrency,
                      !.calls[c].price = bet.priceAtTime,
                      !.calls[c].cryptoAmount = cryptoPayout,
                      !.calls[c].usdAmount = usdPayout]

\* cashOut lines 214-216: Player.findOne answers; credit the loaded copy, then
\* `await player.save()`.
cashOutFind(s, c) ==
  LET call == s.calls[c]
  IN  [s EXCEPT !.calls[c].balance =
                    s.wallet[call.playerId][call.cryptocurrency] + call.cryptoAmount,
                !.calls[c].pc = "savePlayer"]

\* updatePlayerStats lines 256-261, on the copy of the player that findOne loaded.
playerStats(loaded, won, amount) ==
  [totalGamesPlayed |-> loaded.totalGamesPlayed + 1,
   totalWon |-> IF won THEN loaded.totalWon + amount ELSE loaded.totalWon,
   totalLost |-> IF won THEN loaded.totalLost ELSE loaded.totalLost + amount]

\* cashOut lines 220-233: the transaction is stored, then updatePlayerStats loads
\* the player (the transaction is read by nobody, so the two awaits are one step).
cashOutStatsFind(s, c) ==
  LET call == s.calls[c]
      bet == s.rounds[call.bet[1]].bets[call.bet[2]]
  IN  [s EXCEPT !.transactions = @ \cup {Transaction(call, c, "cashout")},
                !.calls[c].st = playerStats(s.stats[call.playerId], TRUE,
                                            call.usdAmount - bet.usdAmount),
                !.calls[c].pc = "statsSave"]

\* cashOut lines 235-246, after updatePlayerStats has saved.
cashOutStatsSaved(s, c) ==
  LET call == s.calls[c]
      s1 == [s EXCEPT !.stats[call.playerId] = call.st]
  IN  finish(emit(s1, Event("player:cashedout", s.currentRound, call.playerId,
                            call.cryptocurrency, toFixed2(call.multiplier),
                            call.cryptoAmount)), c, "ok")

\* POST /deposit lines 50-64: the request is valid; `await Player.findOne`.
depositBegin(s, c, playerId, amount, cryptocurrency) ==
  [s EXCEPT !.calls[c] = [NoCall EXCEPT !.kind = "deposit", !.pc = "findPlayer",
                                        !.playerId = playerId,
                                        !.cryptocurrency = cryptocurrency,
                                        !.cryptoAmount = amount * Scale]]

\* POST /deposit lines 64-75: the player is loaded, the copy credited, save called.
depositFind(s, c, price) ==
  LET call == s.calls[c]
  IN  [s EXCEPT !.calls[c].balance =
                    s.wallet[call.playerId][call.cryptocurrency] + call.cryptoAmount,
                !.calls[c].price = price,
                !.calls[c].usdAmount = call.cryptoAmount * price,
                !.calls[c].pc = "savePlayer"]

\* POST /deposit lines 75-103: the save has written; the transaction is stored.
depositSaved(s, c) ==
  LET call == [s.calls[c] EXCEPT !.txRound = 0]
      s1 == [s EXCEPT !.wallet[call.playerId][call.cryptocurrency] = call.balance,
                      !.transactions = @ \cup {Transaction(call, c, "deposit")}]
  IN  finish(s1, c, "ok")

\* endRound line 139: updatePlayerStats loads the player of the bet being settled.
endRoundStatsFind(s, t) ==
  LET task == s.tasks[t]
      bet == s.rounds[task.round].bets[task.idx]
  IN  [s EXCEPT !.tasks[t].st = playerStats(s.stats[bet.playerId], FALSE, bet.usdAmount),
                !.tasks[t].pc = "er_statsSave"]

\* updatePlayerStats has saved; the loop of endRound goes on.
endRoundStatsSaved(s, t) ==
  LET task == s.tasks[t]
      bet == s.rounds[task.round].bets[task.idx]
  IN  endRoundLoop([s EXCEPT !.stats[bet.playerId] = task.st], t, task.idx + 1)

\* placeBet line 160: Player.findOne answers null (line 161 throws 'Insufficient
\* balance') or rejects; either way the catch of line 193 rethrows.
placeBetFindFails(s, c, answer) ==
  finish(s, c, IF answer = "null" THEN "InsufficientBalance" ELSE "Error")

\* placeBet line 173: player.save() rejects; nothing was written.
placeBetSaveFails(s, c) == finish(s, c, "Error")

\* cashOut lines 214-215: Player.findOne rejects, or answers null and line 215
\* throws a TypeError; the catch of line 248 rethrows. The bet stays as marked.
cashOutFindFails(s, c) == finish(s, c, "Error")

\* cashOut line 216: player.save() rejects; nothing was written.
cashOutSaveFails(s, c) == finish(s, c, "Error")

\* safeSave lines 285-289: document.save() rejects; the error is logged, nothing is
\* written and the finally block clears the flag.
safeSaveFailed(s) == [s EXCEPT !.saving = NoSave]

\* startNewRound lines 53 and 67-69: the first save of the round rejects; the
\* catch logs the error and the call ends, round:new unsent and no timer set.
startNewRoundSaveFails(s, t) == endTask(s, t)

\* logTransaction letting the rejection of transaction.save() out: with it in place
\* of placeBetLogFails a debited bet is answered with an error.
placeBetLogRethrows(s, c) == finish(s, c, "Error")

\* placeBet lines 178-191 when transaction.save() rejects (logTransaction lines
\* 275-277 log it): nothing is stored, bet:placed goes out, the call succeeds.
placeBetLogFails(s, c) ==
  LET call == s.calls[c]
  IN  finish(emit(s, Event("bet:placed", s.currentRound, call.playerId,
                           call.cryptocurrency, call.usdAmount, 0)), c, "ok")

\* cashOut lines 220-233 when transaction.save() rejects: nothing is stored and
\* updatePlayerStats loads the player.
cashOutLogFails(s, c) ==
  LET call == s.calls[c]
      bet == s.rounds[call.bet[1]].bets[call.bet[2]]
  IN  [s EXCEPT !.calls[c].st = playerStats(s.stats[call.playerId], TRUE,
                                            call.usdAmount - bet.usdAmount),
                !.calls[c].pc = "statsSave"]

(* ---------------------- what clients can read -------------------------- *)
abs(x) == IF x < 0 THEN -x ELSE x

\* The 0.01 of `Math.abs(finalCrashPoint - round.crashPoint) < 0.01`.
Tolerance == 10

\* bets.reduce((sum, bet) => sum + bet.usdAmount, 0)
RECURSIVE totalBetAmount(_)
totalBetAmount(bets) ==
  IF bets = <<>> THEN 0 ELSE Head(bets).usdAmount + totalBetAmount(Tail(bets))

\* getGameState lines 323-333 (game:state_response, game:state).
getGameState(s) ==
  [currentRound |->
     IF s.currentRound = 0 THEN [null |-> TRUE]
     ELSE [roundId |-> s.currentRound,
           status |-> s.rounds[s.currentRound].status,
           seedHash |-> s.rounds[s.currentRound].seedHash],
   isGameActive |-> s.isGameActive,
   currentMultiplier |-> toFixed2(s.currentMultiplier)]

\* GET /round/:roundId with the seed in every answer: with it in place of getRound
\* the seed of a waiting round can be read.
getRoundWithSeed(doc, roundId) ==
  IF doc.status = "none" THEN [status |-> 404, error |-> "Round not found"]
  ELSE [roundId |-> roundId, endTime |-> doc.endTime, crashPoint |-> doc.crashPoint,
        seedHash |-> doc.seedHash, status |-> doc.status,
        maxMultiplier |-> doc.maxMultiplier, totalBets |-> Len(doc.bets),
        totalBetAmount |-> totalBetAmount(doc.bets), seed |-> doc.seed]

\* GET /round/:roundId, on the document GameRound.findOne answers (NoRound: none).
getRound(doc, roundId) ==
  LET responseData ==
        [roundId |-> roundId, endTime |-> doc.endTime, crashPoint |-> doc.crashPoint,
         seedHash |-> doc.seedHash, status |-> doc.status,
         maxMultiplier |-> doc.maxMultiplier, totalBets |-> Len(doc.bets),
         totalBetAmount |-> totalBetAmount(doc.bets)]
  IN  IF doc.status = "none" THEN [status |-> 404, error |-> "Round not found"]
      ELSE IF doc.status = "crashed" THEN [seed |-> doc.seed] @@ responseData
      ELSE responseData

\* POST /verify with body {roundId, seed, expectedCrashPoint}, on the document
\* GameRound.findOne answers; hv is the digest prefix the route's own HMAC gives
\* for seed + roundId. 0 stands for a field that is missing.
verifyTrustingSeed(doc, roundId, seed, expectedCrashPoint, hv) ==
  LET finalCrashPoint == crashPointOf(hv)
  IN  IF roundId = 0 \/ seed = 0 \/ expectedCrashPoint = 0
      THEN [status |-> 400, error |-> "Missing required fields"]
      ELSE IF doc.status = "none" THEN [status |-> 404, error |-> "Round not found"]
      ELSE IF doc.status # "crashed"
      THEN [status |-> 400, error |-> "Round not completed yet"]
      ELSE [status |-> 200,
            valid |-> abs(finalCrashPoint - doc.crashPoint) < Tolerance,
            providedCrashPoint |-> expectedCrashPoint,
            actualCrashPoint |-> doc.crashPoint,
            calculatedCrashPoint |-> toFixed2(finalCrashPoint),
            seedHash |-> doc.seedHash, seed |-> doc.seed]

verify(doc, roundId, seed, expectedCrashPoint, hv) ==
  LET finalCrashPoint == crashPointOf(hv)
  IN  IF roundId = 0 \/ seed = 0 \/ expectedCrashPoint = 0
      THEN [status |-> 400, error |-> "Missing required fields"]
      ELSE IF doc.status = "none" THEN [status |-> 404, error |-> "Round not found"]
      ELSE IF doc.status # "crashed"
      THEN [status |-> 400, error |-> "Round not completed yet"]
      ELSE IF hashSeed(seed) # doc.seedHash
      THEN [status |-> 400, error |-> "Invalid seed"]
      ELSE [status |-> 200,
            valid |-> abs(finalCrashPoint - doc.crashPoint) < Tolerance,
            providedCrashPoint |-> expectedCrashPoint,
            actualCrashPoint |-> doc.crashPoint,
            calculatedCrashPoint |-> toFixed2(finalCrashPoint),
            seedHash |-> doc.seedHash, seed |-> doc.seed]

(* ----------------------------- actions --------------------------------- *)
\* The state the constructor leaves, with the players' documents as created.
Constructed ==
  /\ currentRound = 0
  /\ rounds = <<>>
  /\ isGameActive = FALSE
  /\ currentMultiplier = Scale
  /\ timeElapsed = 0
  /\ intervalLive = FALSE
  /\ leaked = 0
  /\ gamePhaseTimers = 0
  /\ newRoundTimers = 0
  /\ saving = NoSave
  /\ tasks = [t \in Tasks |-> NoTask]
  /\ persisted = [r \in 1..MaxRounds |-> NoRound]
  /\ wallet = [p \in Players |->
                 [c \in Currencies |-> IF c = "USDT" THEN UsdtStartingBalance * Scale
                                       ELSE 0]]
  /\ stats = [p \in Players |-> ZeroStats]
  /\ transactions = {}
  /\ events = EmptyBag
  /\ calls = [c \in Calls |-> NoCall]
  /\ startCalls = 0
  /\ stopCalls = 0

Init == Constructed /\ requestsLeft = MaxCalls /\ oracle = NoOracle

InitRestart == Constructed /\ requestsLeft = MaxRestartCalls /\ oracle = NoOracle

\* The slot a new engine call runs in.
FreeTask(t) == t \in FreeTasks(State) /\ \A u \in FreeTasks(State) : t <= u

\* The slot of the next player request.
FreeCall(c) ==
  /\ requestsLeft > 0
  /\ calls[c].pc = "idle"
  /\ \A d \in Calls : calls[d].pc = "idle" => c <= d

\* One request fewer is to come.
Sent == [State EXCEPT !.requestsLeft = @ - 1]

\* Rounds made so far plus those that suspended startNewRound calls will make.
RoundsInSight ==
  Len(rounds) + Cardinality({t \in Tasks : tasks[t].kind = "startNewRound"
                                             /\ tasks[t].pc # "snr_save"})

\* server.js line 76: gameManager.start().
Start ==
  /\ startCalls = 0
  /\ \E t \in Tasks, seed \in Seeds :
       /\ FreeTask(t)
       /\ Commit(startNewRound([State EXCEPT !.startCalls = 1, !.stopCalls = 0], t, seed))

\* start() called again on a running engine.
Restart ==
  /\ startCalls >= 1
  /\ startCalls < MaxStarts
  /\ RoundsInSight < MaxRounds
  /\ \E t \in Tasks, seed \in Seeds :
       /\ FreeTask(t)
       /\ Commit(startNewRound([State EXCEPT !.startCalls = @ + 1, !.stopCalls = 0],
                               t, seed))

\* server.js line 87: gameManager.stop().
Stop == Commit(stop(State))

\* The timer of crashGame line 126 fires.
NewRoundTimer ==
  /\ newRoundTimers > 0
  /\ RoundsInSight < MaxRounds
  /\ \E t \in Tasks, seed \in Seeds :
       /\ FreeTask(t)
       /\ Commit(startNewRound([State EXCEPT !.newRoundTimers = @ - 1], t, seed))

\* `await this.currentRound.save()` of startNewRound resolves.
StartNewRoundSaved ==
  \E t \in Tasks :
    /\ tasks[t].pc = "snr_save"
    /\ Commit(startNewRoundTail(State, t))

\* The timer of startNewRound line 65 fires.
GamePhaseTimer ==
  /\ gamePhaseTimers > 0
  /\ \E t \in Tasks :
       /\ FreeTask(t)
       /\ Commit(startGamePhase([State EXCEPT !.gamePhaseTimers = @ - 1], t))

\* `await this.safeSave(this.currentRound)` of startGamePhase resolves.
StartGamePhaseSaved ==
  \E t \in Tasks :
    /\ tasks[t].pc = "sgp_save"
    /\ Commit(startGamePhaseTail(safeSaveDone(State), t))

\* An interval of startGamePhase line 83 fires.
Tick ==
  /\ intervalLive \/ leaked > 0
  /\ \E t \in Tasks, d \in TickDelays :
       /\ FreeTask(t)
       /\ isGameActive => timeElapsed + d <= MaxElapsed
       /\ Commit(updateMultiplier(State, t, d))

\* Player.findOne of updatePlayerStats, called by endRound, answers.
EndRoundStatsFind ==
  \E t \in Tasks :
    /\ tasks[t].pc = "er_statsFind"
    /\ Commit(endRoundStatsFind(State, t))

\* player.save() of updatePlayerStats, called by endRound, resolves.
EndRoundStatsSaved ==
  \E t \in Tasks :
    /\ tasks[t].pc = "er_statsSave"
    /\ Commit(endRoundStatsSaved(State, t))

\* `await this.safeSave(this.currentRound)` of endRound resolves.
EndRoundSaved ==
  \E t \in Tasks :
    /\ tasks[t].pc = "er_save"
    /\ Commit(afterEndRound(safeSaveDone(State), t))

\* A player sends game:bet with a valid amount and currency.
PlaceBetBegin ==
  \E c \in Calls, p \in Players, usd \in BetUsdAmounts, cur \in BetCurrencies :
    /\ FreeCall(c)
    /\ Commit(placeBetBegin(Sent, c, p, usd, cur))

PlaceBetFind ==
  \E c \in Calls :
    /\ calls[c].kind = "placeBet" /\ calls[c].pc = "findPlayer"
    /\ \E price \in PricesOf(calls[c].cryptocurrency) :
         Commit(placeBetFind(State, c, price))

PlaceBetSaved ==
  \E c \in Calls :
    /\ calls[c].kind = "placeBet" /\ calls[c].pc = "savePlayer"
    /\ Commit(placeBetPush(playerSave(State, c), c))

PlaceBetSafeSaved ==
  \E c \in Calls :
    /\ calls[c].kind = "placeBet" /\ calls[c].pc = "safeSave"
    /\ Commit(logTransactionCall(safeSaveDone(State), c))

PlaceBetLogged ==
  \E c \in Calls :
    /\ calls[c].kind = "placeBet" /\ calls[c].pc = "logTx"
    /\ Commit(placeBetLogged(State, c))

\* A player sends game:cashout.
CashOutBegin ==
  \E c \in Calls, p \in Players :
    /\ FreeCall(c)
    /\ Commit(cashOutBegin(Sent, c, p))

CashOutFind ==
  \E c \in Calls :
    /\ calls[c].kind = "cashOut" /\ calls[c].pc = "findPlayer"
    /\ Commit(cashOutFind(State, c))

CashOutSaved ==
  \E c \in Calls :
    /\ calls[c].kind = "cashOut" /\ calls[c].pc = "savePlayer"
    /\ Commit(callSafeSave(playerSave(State, c), c))

CashOutSafeSaved ==
  \E c \in Calls :
    /\ calls[c].kind = "cashOut" /\ calls[c].pc = "safeSave"
    /\ Commit(logTransactionCall(safeSaveDone(State), c))

CashOutStatsFind ==
  \E c \in Calls :
    /\ calls[c].kind = "cashOut" /\ calls[c].pc = "logTx"
    /\ Commit(cashOutStatsFind(State, c))

CashOutStatsSaved ==
  \E c \in Calls :
    /\ calls[c].kind = "cashOut" /\ calls[c].pc = "statsSave"
    /\ Commit(cashOutStatsSaved(State, c))

\* A client posts a valid deposit.
DepositBegin ==
  \E c \in Calls, p \in Players, amount \in DepositAmounts, cur \in BetCurrencies :
    /\ FreeCall(c)
    /\ Commit(depositBegin(Sent, c, p, amount, cur))

DepositFind ==
  \E c \in Calls :
    /\ calls[c].kind = "deposit" /\ calls[c].pc = "findPlayer"
    /\ \E price \in PricesOf(calls[c].cryptocurrency) :
         Commit(depositFind(State, c, price))

DepositSaved ==
  \E c \in Calls :
    /\ calls[c].kind = "deposit" /\ calls[c].pc = "savePlayer"
    /\ Commit(depositSaved(State, c))

PlaceBetFindFails ==
  \E c \in Calls, answer \in {"null", "rejected"} :
    /\ calls[c].kind = "placeBet" /\ calls[c].pc = "findPlayer"
    /\ Commit(placeBetFindFails(State, c, answer))

PlaceBetSaveFails ==
  \E c \in Calls :
    /\ calls[c].kind = "placeBet" /\ calls[c].pc = "savePlayer"
    /\ Commit(placeBetSaveFails(State, c))

CashOutFindFails ==
  \E c \in Calls :
    /\ calls[c].kind = "cashOut" /\ calls[c].pc = "findPlayer"
    /\ Commit(cashOutFindFails(State, c))

CashOutSaveFails ==
  \E c \in Calls :
    /\ calls[c].kind = "cashOut" /\ calls[c].pc = "savePlayer"
    /\ Commit(cashOutSaveFails(State, c))

\* `await this.currentRound.save()` of startNewRound rejects.
StartNewRoundSaveFails ==
  \E t \in Tasks :
    /\ tasks[t].pc = "snr_save"
    /\ Commit(startNewRoundSaveFails(State, t))

\* document.save() of the safeSave that startGamePhase awaits rejects.
StartGamePhaseSaveFails ==
  \E t \in Tasks :
    /\ tasks[t].pc = "sgp_save"
    /\ Commit(startGamePhaseTail(safeSaveFailed(State), t))

\* document.save() of the safeSave that endRound awaits rejects.
EndRoundSaveFails ==
  \E t \in Tasks :
    /\ tasks[t].pc = "er_save"
    /\ Commit(afterEndRound(safeSaveFailed(State), t))

\* document.save() of the safeSave that placeBet or cashOut awaits rejects.
CallSafeSaveFails ==
  \E c \in Calls :
    /\ calls[c].kind \in {"placeBet", "cashOut"} /\ calls[c].pc = "safeSave"
    /\ Commit(logTransactionCall(safeSaveFailed(State), c))

\* transaction.save() of the logTransaction that placeBet awaits rejects.
PlaceBetLogFails ==
  \E c \in Calls :
    /\ calls[c].kind = "placeBet" /\ calls[c].pc = "logTx"
    /\ Commit(placeBetLogFails(State, c))

\* transaction.save() of the logTransaction that cashOut awaits rejects.
CashOutLogFails ==
  \E c \in Calls :
    /\ calls[c].kind = "cashOut" /\ calls[c].pc = "logTx"
    /\ Commit(cashOutLogFails(State, c))

\* A player sends game:bet with any amount and currency.
HandleBet ==
  \E c \in Calls, p \in Players, usd \in BetInputAmounts, cur \in BetInputCurrencies :
    /\ FreeCall(c)
    /\ Commit(handleBet(Sent, c, p, usd, cur))

\* An interval fires and Date.now() of line 92 has moved by d since the latest
\* tick, back when the wall clock was set back in between.
ClockTick ==
  /\ intervalLive \/ leaked > 0
  /\ isGameActive
  /\ \A e \in BagToSet(events) : CopiesIn(e, events) < MaxRepeats
  /\ \E t \in Tasks, d \in ClockSteps :
       /\ FreeTask(t)
       /\ timeElapsed + d \in 0..MaxElapsed
       /\ Commit(updateMultiplier(State, t, d))

Engine ==
  \/ NewRoundTimer \/ StartNewRoundSaved \/ GamePhaseTimer \/ StartGamePhaseSaved
  \/ Tick \/ EndRoundStatsFind \/ EndRoundStatsSaved \/ EndRoundSaved

Bets ==
  \/ PlaceBetBegin \/ PlaceBetFind \/ PlaceBetSaved \/ PlaceBetSafeSaved
  \/ PlaceBetLogged

CashOuts ==
  \/ CashOutBegin \/ CashOutFind \/ CashOutSaved \/ CashOutSafeSaved
  \/ CashOutStatsFind \/ CashOutStatsSaved

Deposits == DepositBegin \/ DepositFind \/ DepositSaved

Next == Start \/ Engine \/ Bets \/ CashOuts

\* The server as server.js runs it (start() once), with players betting and
\* cashing out.
Spec == Init /\ [][Next]_vars

NextWallet == Next \/ Deposits

\* The same, with deposits arriving through POST /deposit.
SpecWallet == Init /\ [][NextWallet]_vars

NextRestart == Next \/ Stop \/ Restart

\* The same, with stop() and with start() called again while the engine runs.
SpecRestart == InitRestart /\ [][NextRestart]_vars

Faults == PlaceBetFindFails \/ PlaceBetSaveFails \/ CashOutFindFails \/ CashOutSaveFails

NextFaults == Next \/ Faults

InitFaults == Constructed /\ requestsLeft = MaxFaultCalls /\ oracle = NoOracle

\* The same as Spec, with reads and writes of the Player collection that can fail.
SpecFaults == InitFaults /\ [][NextFaults]_vars

StoreFaults ==
  \/ StartNewRoundSaveFails \/ StartGamePhaseSaveFails \/ EndRoundSaveFails
  \/ CallSafeSaveFails

NextStore == Next \/ StoreFaults

InitStore == Constructed /\ requestsLeft = MaxStoreCalls /\ oracle = NoOracle

\* The same as Spec, with writes of the GameRound collection that can fail.
SpecStore == InitStore /\ [][NextStore]_vars

LogFaults == PlaceBetLogFails \/ CashOutLogFails

NextLedger == Next \/ LogFaults

\* The same as Spec, with writes of the Transaction collection that can fail.
SpecLedger == InitStore /\ [][NextLedger]_vars

NextInput == Next \/ HandleBet

\* The engine started once and never stopped, with players betting: while a timer
\* of the engine is due, its interval is live or a database operation it awaits
\* is pending, the engine takes a step.
InitLive == Constructed /\ requestsLeft = MaxLiveCalls /\ oracle = NoOracle

SpecLive ==
  /\ InitLive
  /\ [][Start \/ Engine \/ Bets]_vars
  /\ WF_vars(Engine)

\* The same as Spec, with game:bet messages that carry invalid amounts or
\* currencies.
SpecInput == InitStore /\ [][NextInput]_vars

InitClock == Constructed /\ requestsLeft = 0 /\ oracle = NoOracle

\* The engine without players (endRound has no bet to settle), under a wall clock
\* that is not monotonic.
SpecClock ==
  /\ InitClock
  /\ [][\/ Start \/ NewRoundTimer \/ StartNewRoundSaved \/ GamePhaseTimer
        \/ StartGamePhaseSaved \/ Tick \/ EndRoundSaved \/ ClockTick]_vars

\* One round on its own: PROVABLY_FAIR_SECRET is set or not, the engine's HMAC of
\* seed + roundId has prefix h and the verify route's has prefix hv. With the
\* variable set both use its value as key, so hv = h; without it the engine's key
\* is 'secret' (GameManager.js line 293) and the route's is 'default-secret'
\* (gameRoutes.js line 121), and hv is whatever that other HMAC gives.
InitOracle ==
  /\ Constructed
  /\ requestsLeft = 0
  /\ \E configured \in BOOLEAN, h \in Digests, hv \in Digests :
       /\ configured => hv = h
       /\ oracle = [NoOracle EXCEPT !.pc = "input", !.configured = configured,
                                    !.h = h, !.hv = hv, !.roundId = 1]

\* startNewRound lines 38-53 for that round: seed, seedHash, crashPoint, stored.
OracleCreate ==
  /\ oracle.pc = "input"
  /\ \E seed \in OracleSeeds :
       Commit([State EXCEPT
                 !.oracle.doc = [NoRound EXCEPT !.status = "waiting", !.seed = seed,
                                                !.seedHash = hashSeed(seed),
                                                !.crashPoint = crashPointOf(oracle.h),
                                                !.maxMultiplier = Scale],
                 !.oracle.pc = "stored"])

\* startGamePhase line 79 and endRound line 135, as stored by safeSave.
OraclePhase ==
  /\ oracle.pc = "stored"
  /\ oracle.doc.status \in {"waiting", "active"}
  /\ Commit([State EXCEPT
               !.oracle.doc.status = IF @ = "waiting" THEN "active" ELSE "crashed",
               !.oracle.doc.endTime = (oracle.doc.status = "active")])

\* A client posts {roundId, seed, expectedCrashPoint} to /verify.
OracleVerify ==
  /\ oracle.pc = "stored"
  /\ \E seed \in OracleSeeds \cup {0},
        x \in {0} \cup {oracle.doc.crashPoint + d : d \in ExpectedOffsets} :
       Commit([State EXCEPT
                 !.oracle.seed = seed,
                 !.oracle.expectedCrashPoint = x,
                 !.oracle.response = verify(oracle.doc, oracle.roundId, seed, x, oracle.hv),
                 !.oracle.pc = "answered"])

NextOracle == OracleCreate \/ OraclePhase \/ OracleVerify

\* Round creation and verification for every digest prefix, key setting, seed and
\* claimed crash point drawn.
SpecOracle == InitOracle /\ [][NextOracle]_vars

(* ------------------------------ claims --------------------------------- *)
CurrentStatus == IF currentRound = 0 THEN "none" ELSE rounds[currentRound].status

InFlight(c) == calls[c].pc \notin {"idle", "done"}

\* This step is the entry of a cashOut call in slot c.
CashOutEnters(c) == calls[c].pc = "idle" /\ calls'[c].kind = "cashOut"

\* This step is the entry of a placeBet call in slot c.
PlaceBetEnters(c) == calls[c].pc = "idle" /\ calls'[c].kind = "placeBet"

\* This step is the resolution of player.save() in call c of the given kind.
WalletWrite(c, kind) ==
  calls[c].kind = kind /\ calls[c].pc = "savePlayer" /\ calls'[c].pc # "savePlayer"

AllBets == {<<r, i>> \in (1..MaxRounds) \X (1..MaxCalls) :
              r <= Len(rounds) /\ i <= Len(rounds[r].bets)}

BetAt(b) == rounds[b[1]].bets[b[2]]

\* C1: once the tick has crashed the current round, a cashOut call that enters
\* fails with the round-not-active error and changes no bet and no balance.
C1_CrashBeatsCashOut ==
  [][\A c \in Calls :
       (CashOutEnters(c) /\ CurrentStatus = "crashed")
         => /\ calls'[c].pc = "done"
            /\ calls'[c].result = "RoundNotActive"
            /\ rounds' = rounds
            /\ wallet' = wallet]_vars

\* A cashOut was refused on a crashed round that holds an open bet of the caller.
C1_Witness ==
  \E c \in Calls :
    /\ calls[c].kind = "cashOut" /\ calls[c].result = "RoundNotActive"
    /\ CurrentStatus = "crashed"
    /\ findBet(rounds[currentRound].bets, calls[c].playerId) # 0

\* C2: every bet that is cashed out has a cashoutMultiplier strictly below the
\* crashPoint of the round that holds it.
C2_CashoutBelowCrashPoint ==
  \A b \in AllBets :
    BetAt(b).cashedOut => BetAt(b).cashoutMultiplier < rounds[b[1]].crashPoint

\* A bet was cashed out after a tick had raised the multiplier.
C2_Witness ==
  \E b \in AllBets : BetAt(b).cashedOut /\ BetAt(b).cashoutMultiplier > Scale

\* The cashOut calls that marked bet b.
Markers(b) == {c \in Calls : calls[c].kind = "cashOut" /\ calls[c].bet = b}

\* C3: of the cashOut calls of one player on one bet of an active round, one marks
\* the bet and succeeds, the others fail with the no-active-bet error and change
\* nothing; the bet is marked by one call, which credits the wallet once.
C3_OneCashOutPerBet ==
  /\ [][\A c \in Calls :
          (CashOutEnters(c) /\ CurrentStatus = "active")
            => LET r == currentRound
                   i == findBet(rounds[r].bets, calls'[c].playerId)
               IN  IF i = 0
                   THEN /\ calls'[c].result = "NoActiveBet"
                        /\ rounds' = rounds /\ wallet' = wallet
                   ELSE /\ calls'[c].bet = <<r, i>>
                        /\ rounds'[r].bets[i].cashedOut
                        /\ \A j \in 1..Len(rounds[r].bets) :
                             j # i => rounds'[r].bets[j] = rounds[r].bets[j]]_vars
  /\ [](\A b \in AllBets :
          Cardinality(Markers(b)) = IF BetAt(b).cashedOut THEN 1 ELSE 0)
  /\ [](\A c \in Calls :
          (calls[c].kind = "cashOut" /\ calls[c].pc = "done" /\ calls[c].bet # <<0, 0>>)
            => calls[c].result = "ok")
  /\ [][\A c \in Calls :
          (calls[c].kind = "cashOut" /\ wallet' # wallet /\ calls'[c] # calls[c])
            => WalletWrite(c, "cashOut")]_vars

\* While one cashOut of a player is in flight, another of the same player was
\* refused for want of an open bet.
C3_Witness ==
  \E c, d \in Calls :
    /\ calls[c].kind = "cashOut" /\ InFlight(c) /\ calls[c].bet # <<0, 0>>
    /\ calls[d].kind = "cashOut" /\ calls[d].result = "NoActiveBet"
    /\ calls[d].playerId = calls[c].playerId

\* C4: the flag cashOut tests is true exactly when the current round is active.
C4_FlagIsPhase == isGameActive <=> (CurrentStatus = "active")

\* C5: a placeBet call that enters while the round is active or crashed, or while
\* there is no round, fails with the betting-closed error and changes no balance
\* and no round.
C5_BettingClosed ==
  [][\A c \in Calls :
       (PlaceBetEnters(c) /\ CurrentStatus # "waiting")
         => /\ calls'[c].pc = "done"
            /\ calls'[c].result = "BettingClosed"
            /\ rounds' = rounds
            /\ wallet' = wallet]_vars

\* A placeBet was refused while the round was active.
C5_Witness ==
  \E c \in Calls :
    /\ calls[c].kind = "placeBet" /\ calls[c].result = "BettingClosed"
    /\ CurrentStatus = "active"

\* C6: a bet is appended to a round only while that round is waiting.
C6_AppendOnlyWhileWaiting ==
  [][\A r \in 1..Len(rounds) :
       Len(rounds'[r].bets) > Len(rounds[r].bets) => rounds[r].status = "waiting"]_vars

\* C7: no round holds two bets of one player.
C7_OneBetPerPlayer ==
  \A b, d \in AllBets :
    (b[1] = d[1] /\ BetAt(b).playerId = BetAt(d).playerId) => b = d

\* The cryptoAmount of the bets in S, summed.
RECURSIVE SumStakes(_)
SumStakes(S) ==
  IF S = {} THEN 0
  ELSE LET b == CHOOSE x \in S : TRUE
       IN  BetAt(b).cryptoAmount + SumStakes(S \ {b})

\* What the recorded bets of a player took from a currency.
Staked(p, cur) ==
  SumStakes({b \in AllBets : BetAt(b).playerId = p /\ BetAt(b).cryptocurrency = cur})

StartingBalance(cur) == IF cur = "USDT" THEN UsdtStartingBalance * Scale ELSE 0

\* C8: once the placeBet calls of a player have completed, the balance is the
\* balance before them minus the cryptoAmount of every bet recorded for the player.
C8_OneDebitPerBet ==
  (\A c \in Calls : calls[c].kind \in {"none", "placeBet"} /\ ~InFlight(c))
    => \A p \in Players, cur \in Currencies :
         wallet[p][cur] = StartingBalance(cur) - Staked(p, cur)

\* C9: no balance is negative, and a debit is applied only to a balance that is at
\* least the amount debited.
C9_NeverOverdrawn ==
  /\ [](\A p \in Players, cur \in Currencies : wallet[p][cur] >= 0)
  /\ [][\A c \in Calls :
          WalletWrite(c, "placeBet")
            => wallet[calls[c].playerId][calls[c].cryptocurrency]
                 >= calls[c].cryptoAmount]_vars

\* C10: the credit of a cashOut adds the payout to the balance that is stored.
C10_CreditIsAtomicAdd ==
  [][\A c \in Calls :
       WalletWrite(c, "cashOut")
         => wallet'[calls[c].playerId][calls[c].cryptocurrency]
              = wallet[calls[c].playerId][calls[c].cryptocurrency]
                  + calls[c].cryptoAmount]_vars

\* C11: a cashOut whose wallet credit failed leaves its bet not cashed out.
C11_FailedCreditAborts ==
  \A c \in Calls :
    (calls[c].kind = "cashOut" /\ calls[c].result = "Error" /\ calls[c].bet # <<0, 0>>)
      => /\ ~BetAt(calls[c].bet).cashedOut
         /\ BetAt(calls[c].bet).cashoutMultiplier = 0
         /\ BetAt(calls[c].bet).payout = NoPayout

\* This step ends placeBet call c with an error raised after the phase check.
PlaceBetFails(c) ==
  /\ calls[c].kind = "placeBet" /\ calls[c].pc # "done"
  /\ calls'[c].pc = "done"
  /\ calls'[c].result \in {"InsufficientBalance", "Error"}

\* C12: a placeBet that fails for want of balance, for want of the player or on
\* the debit write changes no balance, appends no bet, stores no transaction and
\* broadcasts nothing, in the step that fails and in every step before it.
C12_FailedBetChangesNothing ==
  /\ [][\A c \in Calls :
          PlaceBetFails(c)
            => /\ wallet' = wallet /\ rounds' = rounds /\ persisted' = persisted
               /\ transactions' = transactions /\ events' = events]_vars
  /\ [](\A c \in Calls :
          (calls[c].kind = "placeBet"
             /\ calls[c].result \in {"InsufficientBalance", "Error"})
            => /\ calls[c].bet = <<0, 0>>
               /\ \A tx \in transactions : tx.transactionId # c
               /\ \A b \in AllBets : BetAt(b).transactionHash # c)

\* Two bets were taken and a third placeBet was refused because the stored balance
\* was below every stake on offer.
C12_Witness ==
  \E c \in Calls :
    /\ calls[c].kind = "placeBet" /\ calls[c].result = "InsufficientBalance"
    /\ \A usd \in BetUsdAmounts : wallet[calls[c].playerId]["USDT"] < usd * Scale
    /\ Cardinality(AllBets) = 2

\* Round r has not reached crashed.
Hidden(r) == rounds[r].status \in {"waiting", "active"}

\* C13: while a round is waiting or active no output a client can get holds its
\* seed: not the round-details answer, not any answer of the verify route, not
\* getGameState, and no event broadcast for the round.
C13_SeedHiddenUntilCrashed ==
  \A r \in 1..Len(rounds) :
    Hidden(r)
      => /\ "seed" \notin DOMAIN getRound(persisted[r], r)
         /\ \A seed \in Seeds \cup {0}, x \in {0, rounds[r].crashPoint}, hv \in Digests :
              "seed" \notin DOMAIN verify(persisted[r], r, seed, x, hv)
         /\ currentRound = r => "seed" \notin DOMAIN getGameState(State).currentRound
         /\ \A e \in BagToSet(events) :
              e.roundId = r => rounds[r].seed \notin {e.a, e.b}

\* The round-details answer gives the seed of a crashed round while the next
\* round, stored and announced, is still hidden.
C13_Witness ==
  \E r, q \in 1..Len(rounds) :
    /\ "seed" \in DOMAIN getRound(persisted[r], r)
    /\ Hidden(q) /\ persisted[q].status = "waiting"
    /\ \E e \in BagToSet(events) : e.type = "round:new" /\ e.roundId = q

\* C14: while a round is waiting or active no output a client can get holds its
\* crashPoint: not the round-details answer, not getGameState, and no event
\* broadcast for the round.
C14_CrashPointHiddenUntilCrashed ==
  \A r \in 1..Len(rounds) :
    Hidden(r)
      => /\ "crashPoint" \notin DOMAIN getRound(persisted[r], r)
         /\ currentRound = r
              => "crashPoint" \notin DOMAIN getGameState(State).currentRound
         /\ \A e \in BagToSet(events) :
              (e.roundId = r /\ e.type \in {"round:new", "round:crashed"})
                => rounds[r].crashPoint \notin {e.a, e.b}

\* round:new has been broadcast for round r.
Announced(r) == \E e \in BagToSet(events) : e.type = "round:new" /\ e.roundId = r

\* C15: a placeBet passes its phase check only on a round whose round:new has been
\* broadcast, and only such a round holds bets.
C15_AnnouncedBeforeBets ==
  /\ [][\A c \in Calls :
          (PlaceBetEnters(c) /\ calls'[c].pc # "done") => Announced(currentRound)]_vars
  /\ [](\A r \in 1..Len(rounds) : rounds[r].bets # <<>> => Announced(r))

\* The verify route has answered a request for a crashed round that gave the
\* round's own seed.
VerifiedWithTrueSeed ==
  /\ oracle.pc = "answered"
  /\ oracle.doc.status = "crashed"
  /\ oracle.seed = oracle.doc.seed
  /\ oracle.expectedCrashPoint # 0

Valid(response) == response.status = 200 /\ response.valid

\* C16: verifying a crashed round with its seed and the crash point the engine
\* computed for it reports valid.
C16_VerifyRoundTrip ==
  (VerifiedWithTrueSeed /\ oracle.expectedCrashPoint = oracle.doc.crashPoint)
    => Valid(oracle.response)

\* C17: verify reports valid only if the crash point it recomputes is within 0.01
\* of the crash point the caller claimed.
C17_ValidOnlyNearClaimed ==
  (VerifiedWithTrueSeed /\ Valid(oracle.response))
    => abs(crashPointOf(oracle.hv) - oracle.expectedCrashPoint) < Tolerance

\* C18: a seed whose hash differs from the round's seedHash is answered with
\* 'Invalid seed' and never with a verdict, and a round that has not crashed is
\* refused.
C18_WrongSeedOrEarlyRefused ==
  oracle.pc = "answered" =>
    /\ oracle.doc.status # "crashed" => oracle.response.status # 200
    /\ hashSeed(oracle.seed) # oracle.doc.seedHash => oracle.response.status # 200
    /\ ( /\ oracle.doc.status = "crashed"
         /\ oracle.seed # 0
         /\ oracle.expectedCrashPoint # 0
         /\ hashSeed(oracle.seed) # oracle.doc.seedHash )
         => oracle.response = [status |-> 400, error |-> "Invalid seed"]
    /\ ( /\ oracle.doc.status # "crashed"
         /\ oracle.seed # 0
         /\ oracle.expectedCrashPoint # 0 )
         => oracle.response = [status |-> 400, error |-> "Round not completed yet"]

C18_Witness ==
  /\ oracle.pc = "answered"
  /\ oracle.doc.status = "crashed"
  /\ oracle.seed \notin {0, oracle.doc.seed}
  /\ oracle.expectedCrashPoint = oracle.doc.crashPoint
  /\ oracle.response.error = "Invalid seed"

\* C19: the crash point stored with a round lies between minCrash and maxCrash
\* whatever the digest prefix, 0 and 0xFFFFFFFF included.
C19_CrashPointInRange ==
  oracle.pc \in {"stored", "answered"} =>
    /\ oracle.doc.crashPoint = crashPointOf(oracle.h)
    /\ minCrash <= oracle.doc.crashPoint
    /\ oracle.doc.crashPoint <= maxCrash

C19_Witness ==
  /\ oracle.pc = "stored"
  /\ oracle.h = <<65535, 65535>>
  /\ oracle.doc.crashPoint = maxCrash

\* The order of the phases of a round.
PhaseRank(status) ==
  CASE status = "waiting" -> 1
    [] status = "active" -> 2
    [] status = "crashed" -> 3
    [] OTHER -> 0

\* C20: the status of a round is waiting, active or crashed and never moves back,
\* whatever timers, ticks, bets, cashouts, start() and stop() do.
C20_PhaseOnlyForward ==
  [][\A r \in DOMAIN rounds :
       /\ PhaseRank(rounds'[r].status) >= PhaseRank(rounds[r].status)
       /\ PhaseRank(rounds'[r].status) > 0]_vars

\* The usdAmount of the bets in S, summed.
RECURSIVE SumUsd(_)
SumUsd(S) ==
  IF S = {} THEN 0
  ELSE LET b == CHOOSE x \in S : TRUE
       IN  BetAt(b).usdAmount + SumUsd(S \ {b})

\* The bets of player p that a crashed round holds and nobody cashed out.
LostBets(p) ==
  {b \in AllBets : /\ rounds[b[1]].status = "crashed"
                   /\ BetAt(b).playerId = p
                   /\ ~BetAt(b).cashedOut}

\* No endRound is under way and no player call is in flight.
Settled ==
  /\ \A t \in Tasks : tasks[t].pc \notin {"er_statsFind", "er_statsSave", "er_save"}
  /\ \A c \in Calls : ~InFlight(c)

\* This step belongs to the endRound that task t runs.
EndRoundStep(t) ==
  \/ tasks[t].pc \in {"er_statsFind", "er_statsSave", "er_save"}
  \/ tasks'[t].pc \in {"er_statsFind", "er_statsSave", "er_save"}

\* C21: the settlement of a crashed round credits no wallet, and once it and the
\* players' calls are over, each player's recorded loss is the usdAmount of every
\* bet of theirs that a crashed round holds not cashed out, counted once.
C21_OpenBetsSettledAsLoss ==
  /\ [][(\E t \in Tasks : EndRoundStep(t) /\ tasks'[t] # tasks[t]) /\ calls' = calls
          => wallet' = wallet]_vars
  /\ [](Settled => \A p \in Players : stats[p].totalLost = SumUsd(LostBets(p)))

\* A crashGame or an endRound call is suspended.
Finalizing ==
  \E t \in Tasks :
    \/ tasks[t].kind = "crashGame"
    \/ tasks[t].pc \in {"er_statsFind", "er_statsSave", "er_save"}

\* C22: a new round becomes current only when there was no round before, or the
\* round before has crashed and its crashGame / endRound has run to its end.
C22_NextRoundAfterFinalize ==
  [][Len(rounds') > Len(rounds)
       => \/ currentRound = 0
          \/ /\ rounds[currentRound].status = "crashed"
             /\ ~Finalizing]_vars

\* Round 2 is current after round 1 crashed holding a bet that was settled as lost.
C22_Witness ==
  /\ Len(rounds) = 2 /\ currentRound = 2
  /\ rounds[1].status = "crashed"
  /\ \E i \in 1..Len(rounds[1].bets) : ~rounds[1].bets[i].cashedOut
  /\ \E p \in Players : stats[p].totalLost > 0

\* stop() was called on a started engine and start() has not been called since,
\* nor is it called in this step.
Stopped == startCalls >= 1 /\ stopCalls = 1 /\ stopCalls' = 1

\* C23: once stop() was called, the multiplier does not move, no round changes its
\* status and no round is created.
C23_QuiescentAfterStop ==
  [][Stopped
       => /\ currentMultiplier' = currentMultiplier
          /\ Len(rounds') = Len(rounds)
          /\ \A r \in 1..Len(rounds) : rounds'[r].status = rounds[r].status]_vars

\* C24: once stop() was called, no cashOut is accepted: a call that enters marks
\* no bet.
C24_NoCashOutAfterStop ==
  [][\A c \in Calls :
       (Stopped /\ CashOutEnters(c))
         => calls'[c].pc = "done" /\ calls'[c].bet = <<0, 0>> /\ rounds' = rounds]_vars

\* Something of the engine is pending: a suspended call, a timer or an interval.
EnginePending ==
  \/ \E t \in Tasks : tasks[t].kind # "none"
  \/ gamePhaseTimers > 0
  \/ newRoundTimers > 0
  \/ intervalLive
  \/ leaked > 0

\* C25: whatever writes of the round fail, a started engine always has its next
\* step pending, so the round goes on to active, to crashed and to the next round.
C25_WriteFailureNeverStalls == startCalls >= 1 => EnginePending

\* C26: once the crashGame / endRound of a crashed round has run to its end, the
\* stored record of the round has status crashed and its endTime.
C26_CrashedRoundPersisted ==
  \A r \in 1..Len(rounds) :
    (rounds[r].status = "crashed" /\ ~Finalizing)
      => persisted[r].status = "crashed" /\ persisted[r].endTime

\* Call c has gone past logTransaction and no transaction of it is stored.
Unlogged(c) ==
  /\ calls[c].kind \in {"placeBet", "cashOut"}
  /\ calls[c].bet # <<0, 0>>
  /\ calls[c].pc \in {"statsSave", "done"}
  /\ \A tx \in transactions : tx.transactionId # c

\* C27: the step in which logTransaction fails changes no wallet and no round, and
\* a placeBet or cashOut whose transaction was not stored keeps its bet, or its
\* bet marked cashed out, and answers success.
C27_LogFailureKeepsSettlement ==
  /\ [][\A c \in Calls :
          (calls[c].pc = "logTx" /\ calls'[c].pc # "logTx"
             /\ transactions' = transactions)
            => wallet' = wallet /\ rounds' = rounds /\ persisted' = persisted]_vars
  /\ [](\A c \in Calls :
          Unlogged(c)
            => /\ calls[c].pc = "done" => calls[c].result = "ok"
               /\ calls[c].kind = "placeBet" => BetAt(calls[c].bet).transactionHash = c
               /\ calls[c].kind = "cashOut" => BetAt(calls[c].bet).cashedOut)

\* A placeBet and the cashOut of its bet both succeeded with no transaction stored
\* and the wallet holds stake and payout.
C27_Witness ==
  \E c, d \in Calls :
    /\ Unlogged(c) /\ calls[c].kind = "placeBet" /\ calls[c].result = "ok"
    /\ Unlogged(d) /\ calls[d].kind = "cashOut" /\ calls[d].result = "ok"
    /\ calls[d].bet = calls[c].bet
    /\ transactions = {}
    /\ wallet[calls[c].playerId][BetAt(calls[c].bet).cryptocurrency]
         = StartingBalance(BetAt(calls[c].bet).cryptocurrency)
             - BetAt(calls[c].bet).cryptoAmount + BetAt(calls[c].bet).payout.cryptoAmount

C29_PayoutAtLiveMultiplier ==
  /\ [](isGameActive => currentMultiplier = Scale + timeElapsed * GrowthPerUnit)
  /\ [][\A c \in Calls :
          (CashOutEnters(c) /\ calls'[c].bet # <<0, 0>>)
            => LET r == calls'[c].bet[1]
                   i == calls'[c].bet[2]
                   old == rounds[r].bets[i]
                   new == rounds'[r].bets[i]
               IN  /\ new.cashedOut
                   /\ new.cashoutMultiplier = currentMultiplier
                   /\ new.payout.cryptoAmount
                        = (old.cryptoAmount * currentMultiplier) \div Scale
                   /\ new.payout.usdAmount = new.payout.cryptoAmount * old.priceAtTime
                   /\ new.priceAtTime = old.priceAtTime
                   /\ new.cryptoAmount * old.priceAtTime = new.usdAmount]_vars
  /\ [](\A c \in Calls :
          (calls[c].kind = "cashOut" /\ InFlight(c))
            => /\ calls[c].multiplier = BetAt(calls[c].bet).cashoutMultiplier
               /\ calls[c].cryptoAmount = BetAt(calls[c].bet).payout.cryptoAmount
               /\ calls[c].usdAmount = BetAt(calls[c].bet).payout.usdAmount)

\* A cashOut accepted after a tick has succeeded and its bet is paid above stake.
C29_Witness ==
  \E c \in Calls :
    /\ calls[c].kind = "cashOut" /\ calls[c].result = "ok"
    /\ BetAt(calls[c].bet).cashoutMultiplier = Scale + (CHOOSE d \in TickDelays : TRUE) * GrowthPerUnit
    /\ BetAt(calls[c].bet).payout.usdAmount > BetAt(calls[c].bet).usdAmount

\* How many tick intervals are running.
Intervals == leaked + (IF intervalLive THEN 1 ELSE 0)

\* How many times round:started went out for round r.
Activations(r) == CopiesIn(Event("round:started", r, "", "", 0, 0), events)

\* C30: at most one tick interval runs at any time, no round is started twice, and
\* startGamePhase acts only on a round that is waiting.
C30_OneActivationOneInterval ==
  /\ [](Intervals <= 1)
  /\ [](\A r \in 1..Len(rounds) : Activations(r) <= 1)
  /\ [][\A t \in Tasks :
          (tasks[t].kind = "none" /\ tasks'[t].kind = "startGamePhase")
            => CurrentStatus = "waiting"]_vars

\* C31: a tick whose multiplier is at or above crashPoint leaves the round crashed,
\* the flag off and the interval cleared, and broadcasts no update; while the game
\* is not active no step moves the multiplier or broadcasts one; and every
\* multiplier:update broadcast carries a multiplier below the round's crashPoint.
C31_CrashTickIsSilent ==
  /\ [][(timeElapsed' # timeElapsed /\ currentRound # 0 /\ isGameActive
           /\ currentMultiplier' >= rounds[currentRound].crashPoint)
          => /\ rounds'[currentRound].status = "crashed"
             /\ ~isGameActive' /\ ~intervalLive'
             /\ \A e \in BagToSet(events') :
                  e.type = "multiplier:update"
                    => CopiesIn(e, events') = CopiesIn(e, events)]_vars
  /\ [][(~isGameActive /\ ~isGameActive')
          => /\ currentMultiplier' = currentMultiplier
             /\ \A e \in BagToSet(events') :
                  e.type = "multiplier:update"
                    => CopiesIn(e, events') = CopiesIn(e, events)]_vars
  /\ [](\A e \in BagToSet(events) :
          e.type = "multiplier:update" => e.a < rounds[e.roundId].crashPoint)

\* C32: no step lowers the maxMultiplier of a round, and a step that moves the
\* clock of the game or the live multiplier leaves the current round's
\* maxMultiplier at or above the live multiplier.
C32_MaxMultiplierMonotone ==
  [][/\ \A r \in 1..Len(rounds) : rounds'[r].maxMultiplier >= rounds[r].maxMultiplier
     /\ ((timeElapsed' # timeElapsed \/ currentMultiplier' # currentMultiplier)
           /\ currentRound' # 0)
          => rounds'[currentRound'].maxMultiplier >= currentMultiplier']_vars

\* A tick has computed a live multiplier below the one of an earlier tick of the
\* round, whose maxMultiplier stays above it.
C32_Witness ==
  /\ isGameActive /\ currentRound # 0 /\ timeElapsed > 0
  /\ currentMultiplier = Scale + timeElapsed * GrowthPerUnit
  /\ rounds[currentRound].maxMultiplier > currentMultiplier

\* C33: a bet that is cashed out is never changed again; the step that sets
\* cashedOut sets cashoutMultiplier and payout with it; and in every state, in
\* memory and in the store, a bet has multiplier and payout exactly when it is
\* cashed out.
C33_CashedOutWriteOnce ==
  /\ [][\A r \in 1..Len(rounds) : \A i \in 1..Len(rounds[r].bets) :
          /\ rounds[r].bets[i].cashedOut => rounds'[r].bets[i] = rounds[r].bets[i]
          /\ (~rounds[r].bets[i].cashedOut /\ rounds'[r].bets[i].cashedOut)
               => /\ rounds'[r].bets[i].cashoutMultiplier = currentMultiplier
                  /\ rounds'[r].bets[i].payout # NoPayout]_vars
  /\ [](\A r \in 1..Len(rounds) :
          \A bet \in {rounds[r].bets[i] : i \in 1..Len(rounds[r].bets)}
                     \cup {persisted[r].bets[i] : i \in 1..Len(persisted[r].bets)} :
            /\ bet.cashedOut <=> bet.payout # NoPayout
            /\ bet.cashedOut <=> bet.cashoutMultiplier # 0)
  /\ [][\A r \in 1..Len(rounds) : \A i \in 1..Len(persisted[r].bets) :
          persisted[r].bets[i].cashedOut
            => /\ i <= Len(persisted'[r].bets)
               /\ persisted'[r].bets[i] = persisted[r].bets[i]]_vars

\* A bet cashed out above 1 is stored as such in its crashed round, and a later
\* cashOut of its player was refused.
C33_Witness ==
  \E b \in AllBets, c \in Calls :
    /\ BetAt(b).cashedOut /\ BetAt(b).cashoutMultiplier > Scale
    /\ rounds[b[1]].status = "crashed"
    /\ b[2] <= Len(persisted[b[1]].bets)
    /\ persisted[b[1]].bets[b[2]] = BetAt(b)
    /\ calls[c].kind = "cashOut" /\ calls[c].pc = "done" /\ calls[c].result # "ok"
    /\ calls[c].playerId = BetAt(b).playerId

\* C34: a bet is settled at most one way. The step that calls updatePlayerStats
\* with a loss for a bet finds it not cashed out and no other endRound at or past
\* it; the step that cashes a bet out finds no endRound of its round at or past
\* it; and once all calls are over no player's recorded loss exceeds the stakes
\* of their bets that crashed rounds hold not cashed out.
C34_SettledOneWay ==
  /\ [][\A t \in Tasks :
          (/\ tasks'[t].pc = "er_statsFind"
           /\ <<tasks[t].pc, tasks[t].round, tasks[t].idx>>
                # <<tasks'[t].pc, tasks'[t].round, tasks'[t].idx>>)
            => /\ ~rounds'[tasks'[t].round].bets[tasks'[t].idx].cashedOut
               /\ \A u \in Tasks \ {t} :
                    ~ /\ tasks[u].pc \in {"er_statsFind", "er_statsSave", "er_save"}
                      /\ tasks[u].round = tasks'[t].round
                      /\ tasks[u].pc = "er_save" \/ tasks[u].idx >= tasks'[t].idx]_vars
  /\ [][\A r \in 1..Len(rounds) : \A i \in 1..Len(rounds[r].bets) :
          (~rounds[r].bets[i].cashedOut /\ rounds'[r].bets[i].cashedOut)
            => \A u \in Tasks :
                 ~ /\ tasks[u].pc \in {"er_statsFind", "er_statsSave", "er_save"}
                   /\ tasks[u].round = r
                   /\ tasks[u].pc = "er_save" \/ tasks[u].idx >= i]_vars
  /\ [](Settled => \A p \in Players : stats[p].totalLost <= SumUsd(LostBets(p)))

\* C35: the stored transaction of a placeBet or cashOut names the round that
\* holds the bet of that call, and every bet:placed or player:cashedout event
\* names a round that holds a bet of its player (cashed out, for the latter).
C35_RoundIdOfHoldingRound ==
  /\ \A tx \in transactions :
       tx.type \in {"bet", "cashout"}
         => tx.roundId = calls[tx.transactionId].bet[1]
  /\ \A e \in BagToSet(events) :
       e.type \in {"bet:placed", "player:cashedout"}
         => \E i \in 1..Len(rounds[e.roundId].bets) :
              /\ rounds[e.roundId].bets[i].playerId = e.playerId
              /\ e.type = "player:cashedout" => rounds[e.roundId].bets[i].cashedOut

\* C36: whenever an event of a round is broadcast, round:new precedes the other
\* three events of its round and follows round:crashed of the round before;
\* round:started follows round:new and precedes every multiplier:update and
\* round:crashed of its round; multiplier:update follows round:started and precedes round:crashed;
\* round:crashed follows round:started; and none of round:new, round:started,
\* round:crashed is sent twice for a round.
C36_EventOrder ==
  [][\A e \in BagToSet(events') :
       CopiesIn(e, events') > CopiesIn(e, events)
         => LET sent(type, r) ==
                  \E x \in BagToSet(events) : x.type = type /\ x.roundId = r
            IN  /\ e.type = "round:new"
                     => /\ CopiesIn(e, events') = 1
                        /\ ~sent("round:new", e.roundId)
                        /\ ~sent("round:started", e.roundId)
                        /\ ~sent("multiplier:update", e.roundId)
                        /\ ~sent("round:crashed", e.roundId)
                        /\ e.roundId > 1 => sent("round:crashed", e.roundId - 1)
                /\ e.type = "round:started"
                     => /\ CopiesIn(e, events') = 1
                        /\ sent("round:new", e.roundId)
                        /\ ~sent("round:started", e.roundId)
                        /\ ~sent("multiplier:update", e.roundId)
                        /\ ~sent("round:crashed", e.roundId)
                /\ e.type = "multiplier:update"
                     => /\ sent("round:started", e.roundId)
                        /\ ~sent("round:crashed", e.roundId)
                /\ e.type = "round:crashed"
                     => /\ CopiesIn(e, events') = 1
                        /\ sent("round:started", e.roundId)
                        /\ ~sent("round:crashed", e.roundId)]_vars

\* Round 1 was announced, started, published a multiplier and crashed, and round
\* 2 has been announced and started.
C36_Witness ==
  /\ \A type \in {"round:new", "round:started", "multiplier:update", "round:crashed"} :
       \E e \in BagToSet(events) : e.type = type /\ e.roundId = 1
  /\ \A type \in {"round:new", "round:started"} :
       \E e \in BagToSet(events) : e.type = type /\ e.roundId = 2

\* C37: every round that is created becomes active, every active round becomes
\* crashed, and after a round below the bound on rounds has crashed the next
\* round is created.
C37_RoundsProgress ==
  \A r \in 1..MaxRounds :
    /\ (Len(rounds) >= r /\ rounds[r].status = "waiting")
         ~> (Len(rounds) >= r /\ rounds[r].status = "active")
    /\ (Len(rounds) >= r /\ rounds[r].status = "active")
         ~> (Len(rounds) >= r /\ rounds[r].status = "crashed")
    /\ (Len(rounds) >= r /\ rounds[r].status = "crashed" /\ r < MaxRounds)
         ~> (Len(rounds) > r)

\* Both rounds have crashed and announced it, the second holding a bet, and the
\* timer of the next startNewRound is set.
C37_Witness ==
  /\ Len(rounds) = MaxRounds
  /\ \A r \in 1..MaxRounds :
       /\ rounds[r].status = "crashed"
       /\ \E e \in BagToSet(events) : e.type = "round:crashed" /\ e.roundId = r
  /\ rounds[MaxRounds].bets # <<>>
  /\ newRoundTimers > 0

====
